---- MODULE Spec2Model ----
(***************************************************************************)
(* catty: a oneshot channel.  A Sender and a Receiver share one cell       *)
(* Arc<Mutex<State<T>>> (src/src/lib.rs).  Every operation goes through    *)
(* InnerArc::replace_state: lock, mem::take the old state (leaving the     *)
(* default in the cell), run the closure on the old state, store the new   *)
(* state, unlock.  The model keeps these five steps apart, for a sender    *)
(* thread "S" and a receiver thread "R".                                   *)
(***************************************************************************)
EXTENDS Integers, Sequences, FiniteSets, TLC

\* Number of distinct items a send may carry.
MaxItem == 2
\* Number of distinct wakers a poll may pass in its Context.
NumWakers == 2
\* Number of try_recv / poll_recv calls the receiver makes in one run.
MaxRecv == 3

Items == 1..MaxItem
Wakers == 1..NumWakers
Procs == {"S", "R"}

\* Option<T>: None is the empty sequence, Some(x) the one-element sequence.
None == <<>>
Some(x) == <<x>>

VARIABLES
    state,      \* the contents of the Mutex<State<T>> cell
    lock,       \* the spin mutex: None or Some(p), p the thread holding the guard
    refs,       \* the Arc's strong count
    discarded,  \* the item dropped with the cell when the Arc is freed
    pc,         \* pc[p]: where thread p is
    op,         \* op[p]: the operation thread p is running
    arg,        \* arg[p]: its argument (Some(item) for send, Some(waker) for poll_recv)
    old,        \* old[p]: old_state inside replace_state
    out,        \* out[p]: (ret, new_state) computed by the closure
    returned,   \* returned[p]: the value the last send / try_recv / poll_recv returned
    rxGone,     \* whether the Receiver's drop had completed when send was called
    nrecv,      \* number of receive calls started
    scheduled,  \* the executor has the receiver's task queued for a poll
    wakes,      \* wakes[w]: how many times waker w has been invoked
    hist        \* the transitions applied so far, in lock order

vars == <<state, lock, refs, discarded, pc, op, arg, old, out, returned, rxGone, nrecv,
          scheduled, wakes, hist>>

\* enum State<T>
ReceiverNotYetPolled == [tag |-> "ReceiverNotYetPolled", waker |-> None, item |-> None]
ReceiverWaiting(w) == [tag |-> "ReceiverWaiting", waker |-> Some(w), item |-> None]
ItemSent(it) == [tag |-> "ItemSent", waker |-> None, item |-> Some(it)]
Disconnected == [tag |-> "Disconnected", waker |-> None, item |-> None]

\* impl Default for State<T>
StateDefault == ReceiverNotYetPolled

\* Return values.
Ret(kind, val) == [kind |-> kind, val |-> val]
NoRet == Ret("none", None)

\* What a closure passed to replace_state yields: the value returned, the new
\* state, and the waker it invoked on the way (waker.wake() is evaluated while
\* the tuple is built).
Out(ret, new, wake) == [ret |-> ret, new |-> new, wake |-> wake]
NoOut == Out(NoRet, StateDefault, None)

(***************************************************************************)
(* The closures handed to replace_state.                                   *)
(***************************************************************************)

\* send without its Disconnected arm: the item is stored whatever the old state.
SendF_IgnoresDisconnected(oldState, item) ==
    CASE oldState.tag = "ReceiverWaiting" ->
            Out(Ret("Ok", None), ItemSent(item), oldState.waker)
      [] OTHER ->
            Out(Ret("Ok", None), ItemSent(item), None)

\* send that drops the registered waker instead of waking it.
SendF_NoWake(oldState, item) ==
    CASE oldState.tag = "Disconnected" ->
            Out(Ret("Err", Some(item)), Disconnected, None)
      [] OTHER ->
            Out(Ret("Ok", None), ItemSent(item), None)

\* send that wakes a waiting receiver but puts the old state back instead of
\* the item.
SendF_WakesWithoutStoring(oldState, item) ==
    CASE oldState.tag = "Disconnected" ->
            Out(Ret("Err", Some(item)), Disconnected, None)
      [] oldState.tag = "ReceiverWaiting" ->
            Out(Ret("Ok", None), oldState, oldState.waker)
      [] OTHER ->
            Out(Ret("Ok", None), ItemSent(item), None)

\* Sender::send: |old| match old { Disconnected => (Err(item), Disconnected),
\*   ReceiverWaiting(waker) => (Ok(waker.wake()), ItemSent(item)),
\*   _ => (Ok(()), ItemSent(item)) }
SendF(oldState, item) ==
    CASE oldState.tag = "Disconnected" ->
            Out(Ret("Err", Some(item)), Disconnected, None)
      [] oldState.tag = "ReceiverWaiting" ->
            Out(Ret("Ok", None), ItemSent(item), oldState.waker)
      [] OTHER ->
            Out(Ret("Ok", None), ItemSent(item), None)

\* drop that disconnects only a waiting receiver: _ => ((), old).
DropF_NoDisconnect(oldState) ==
    CASE oldState.tag = "ReceiverWaiting" ->
            Out(Ret("Unit", None), Disconnected, oldState.waker)
      [] OTHER ->
            Out(Ret("Unit", None), oldState, None)

\* drop that disconnects a waiting receiver without waking it.
DropF_NoWake(oldState) ==
    CASE oldState.tag = "ItemSent" ->
            Out(Ret("Unit", None), ItemSent(oldState.item[1]), None)
      [] OTHER ->
            Out(Ret("Unit", None), Disconnected, None)

\* drop without its ItemSent arm: a pending item is destroyed.
DropF_DisconnectsItem(oldState) ==
    CASE oldState.tag = "ReceiverWaiting" ->
            Out(Ret("Unit", None), Disconnected, oldState.waker)
      [] OTHER ->
            Out(Ret("Unit", None), Disconnected, None)

\* InnerArc::drop: |old| match old { ReceiverWaiting(waker) => (waker.wake(), Disconnected),
\*   ItemSent(it) => ((), ItemSent(it)), _ => ((), Disconnected) }
DropF(oldState) ==
    CASE oldState.tag = "ReceiverWaiting" ->
            Out(Ret("Unit", None), Disconnected, oldState.waker)
      [] oldState.tag = "ItemSent" ->
            Out(Ret("Unit", None), ItemSent(oldState.item[1]), None)
      [] OTHER ->
            Out(Ret("Unit", None), Disconnected, None)

\* try_recv that hands the item out and puts it back: ItemSent(item) stays.
TryRecvF_KeepsItem(oldState) ==
    CASE oldState.tag = "ItemSent" ->
            Out(Ret("OkSome", oldState.item), oldState, None)
      [] oldState.tag = "Disconnected" ->
            Out(Ret("ErrDisconnected", None), Disconnected, None)
      [] OTHER ->
            Out(Ret("OkNone", None), oldState, None)

\* try_recv that leaves the default mem::take put in the cell when it finds
\* Disconnected.
TryRecvF_ResetsDisconnected(oldState) ==
    CASE oldState.tag = "ItemSent" ->
            Out(Ret("OkSome", oldState.item), Disconnected, None)
      [] oldState.tag = "Disconnected" ->
            Out(Ret("ErrDisconnected", None), StateDefault, None)
      [] OTHER ->
            Out(Ret("OkNone", None), oldState, None)

\* try_recv that does not put the old state back when there is nothing to
\* receive: the default mem::take left stays, and a registered waker is lost.
TryRecvF_DropsWaker(oldState) ==
    CASE oldState.tag = "ItemSent" ->
            Out(Ret("OkSome", oldState.item), Disconnected, None)
      [] oldState.tag = "Disconnected" ->
            Out(Ret("ErrDisconnected", None), Disconnected, None)
      [] OTHER ->
            Out(Ret("OkNone", None), StateDefault, None)

\* Receiver::try_recv: |old| match old { ItemSent(item) => (Ok(Some(item)), Disconnected),
\*   Disconnected => (Err(Disconnected), Disconnected), old => (Ok(None), old) }
TryRecvF(oldState) ==
    CASE oldState.tag = "ItemSent" ->
            Out(Ret("OkSome", oldState.item), Disconnected, None)
      [] oldState.tag = "Disconnected" ->
            Out(Ret("ErrDisconnected", None), Disconnected, None)
      [] OTHER ->
            Out(Ret("OkNone", None), oldState, None)

\* poll_recv that keeps a waker already registered instead of overwriting it.
PollRecvF_KeepsFirstWaker(oldState, w) ==
    CASE oldState.tag = "ItemSent" ->
            Out(Ret("ReadyOk", oldState.item), Disconnected, None)
      [] oldState.tag = "Disconnected" ->
            Out(Ret("ReadyErrDisconnected", None), Disconnected, None)
      [] oldState.tag = "ReceiverWaiting" ->
            Out(Ret("Pending", None), oldState, None)
      [] OTHER ->
            Out(Ret("Pending", None), ReceiverWaiting(w), None)

\* poll_recv that returns Pending without registering its waker.
PollRecvF_NoRegister(oldState, w) ==
    CASE oldState.tag = "ItemSent" ->
            Out(Ret("ReadyOk", oldState.item), Disconnected, None)
      [] oldState.tag = "Disconnected" ->
            Out(Ret("ReadyErrDisconnected", None), Disconnected, None)
      [] OTHER ->
            Out(Ret("Pending", None), oldState, None)

\* Receiver::poll_recv: |old| match old { ItemSent(item) => (Ready(Ok(item)), Disconnected),
\*   Disconnected => (Ready(Err(Disconnected)), Disconnected),
\*   _ => (Pending, ReceiverWaiting(cx.waker().clone())) }
PollRecvF(oldState, w) ==
    CASE oldState.tag = "ItemSent" ->
            Out(Ret("ReadyOk", oldState.item), Disconnected, None)
      [] oldState.tag = "Disconnected" ->
            Out(Ret("ReadyErrDisconnected", None), Disconnected, None)
      [] OTHER ->
            Out(Ret("Pending", None), ReceiverWaiting(w), None)

\* The closure of the operation thread p is running, applied to old[p].
Closure(p) ==
    CASE op[p] = "send" -> SendF(old[p], arg[p][1])
      [] op[p] = "drop" -> DropF(old[p])
      [] op[p] = "try_recv" -> TryRecvF(old[p])
      [] op[p] = "poll_recv" -> PollRecvF(old[p], arg[p][1])

\* Waker::wake: counts the invocation and queues the receiver task.
Wake(wk) ==
    /\ wakes' = [w \in Wakers |-> IF wk = Some(w) THEN wakes[w] + 1 ELSE wakes[w]]
    /\ scheduled' = (scheduled \/ wk # None)

(***************************************************************************)
(* oneshot(): one cell in the default state, two handles.                  *)
(***************************************************************************)
Init ==
    /\ state = StateDefault
    /\ lock = None
    /\ refs = Cardinality(Procs)
    /\ discarded = None
    /\ pc = [p \in Procs |-> "idle"]
    /\ op = [p \in Procs |-> "none"]
    /\ arg = [p \in Procs |-> None]
    /\ old = [p \in Procs |-> StateDefault]
    /\ out = [p \in Procs |-> NoOut]
    /\ returned = [p \in Procs |-> NoRet]
    /\ rxGone = FALSE
    /\ nrecv = 0
    /\ scheduled = TRUE
    /\ wakes = [w \in Wakers |-> 0]
    /\ hist = <<>>

Call(p, o, a) ==
    /\ pc[p] = "idle"
    /\ op' = [op EXCEPT ![p] = o]
    /\ arg' = [arg EXCEPT ![p] = a]
    /\ pc' = [pc EXCEPT ![p] = "lock"]
    /\ UNCHANGED <<state, lock, refs, discarded, old, out, returned, wakes, hist>>

IsReady(r) == r.kind \in {"ReadyOk", "ReadyErrDisconnected"}

\* tx.send(item)
SendCall(item) ==
    /\ Call("S", "send", Some(item))
    /\ rxGone' = (pc["R"] = "done")
    /\ UNCHANGED <<nrecv, scheduled>>

\* drop(tx) without a send
SenderDropCall ==
    /\ Call("S", "drop", None)
    /\ UNCHANGED <<rxGone, nrecv, scheduled>>

\* rx.try_recv()
TryRecvCall ==
    /\ nrecv < MaxRecv
    /\ Call("R", "try_recv", None)
    /\ nrecv' = nrecv + 1
    /\ UNCHANGED <<rxGone, scheduled>>

\* rx.poll_recv(cx), cx carrying waker w
PollRecvCall(w) ==
    /\ nrecv < MaxRecv
    /\ Call("R", "poll_recv", Some(w))
    /\ nrecv' = nrecv + 1
    /\ UNCHANGED <<rxGone, scheduled>>

\* rx.await: Future::poll calls poll_recv; the executor polls the task when it
\* is queued, until the future has returned Ready.
TaskPoll(w) ==
    /\ scheduled
    /\ ~IsReady(returned["R"])
    /\ Call("R", "poll_recv", Some(w))
    /\ scheduled' = FALSE
    /\ nrecv' = nrecv + 1
    /\ UNCHANGED rxGone

\* A Receiver that holds the Arc directly: dropping it releases its reference
\* without running InnerArc::drop.
ReceiverDropCall_NoHook ==
    /\ pc["R"] = "idle"
    /\ op' = [op EXCEPT !["R"] = "drop"]
    /\ pc' = [pc EXCEPT !["R"] = "release"]
    /\ UNCHANGED <<state, lock, refs, discarded, arg, old, out, returned, rxGone, nrecv,
                   scheduled, wakes, hist>>

\* drop(rx)
ReceiverDropCall ==
    /\ Call("R", "drop", None)
    /\ UNCHANGED <<rxGone, nrecv, scheduled>>

\* The task drops its future once it has resolved.
TaskDrop ==
    /\ IsReady(returned["R"])
    /\ ReceiverDropCall

(***************************************************************************)
(* InnerArc::replace_state, step by step.                                  *)
(***************************************************************************)

\* A lock that does not exclude: the guard is handed out while another is held.
Lock_NoExclusion(p) ==
    /\ pc[p] = "lock"
    /\ lock' = Some(p)
    /\ pc' = [pc EXCEPT ![p] = "take"]
    /\ UNCHANGED <<state, refs, discarded, op, arg, old, out, returned, rxGone, nrecv,
                   scheduled, wakes, hist>>

\* let mut state = self.0.lock();
Lock(p) ==
    /\ pc[p] = "lock"
    /\ lock = None
    /\ lock' = Some(p)
    /\ pc' = [pc EXCEPT ![p] = "take"]
    /\ UNCHANGED <<state, refs, discarded, op, arg, old, out, returned, rxGone, nrecv,
                   scheduled, wakes, hist>>

\* let old_state = mem::take(&mut *state);
Take(p) ==
    /\ pc[p] = "take"
    /\ old' = [old EXCEPT ![p] = state]
    /\ state' = StateDefault
    /\ pc' = [pc EXCEPT ![p] = "apply"]
    /\ UNCHANGED <<lock, refs, discarded, op, arg, out, returned, rxGone, nrecv,
                   scheduled, wakes, hist>>

\* let (ret, new_state) = f(old_state);
Apply(p) ==
    /\ pc[p] = "apply"
    /\ LET o == Closure(p) IN
        /\ out' = [out EXCEPT ![p] = o]
        /\ Wake(o.wake)
        /\ hist' = Append(hist, [who |-> p, op |-> op[p], arg |-> arg[p],
                                 old |-> old[p], new |-> o.new, ret |-> o.ret,
                                 wake |-> o.wake, locked |-> (lock # None)])
    /\ pc' = [pc EXCEPT ![p] = "store"]
    /\ UNCHANGED <<state, lock, refs, discarded, op, arg, old, returned, rxGone, nrecv>>

\* *state = new_state;
Store(p) ==
    /\ pc[p] = "store"
    /\ state' = out[p].new
    /\ pc' = [pc EXCEPT ![p] = "unlock"]
    /\ UNCHANGED <<lock, refs, discarded, op, arg, old, out, returned, rxGone, nrecv,
                   scheduled, wakes, hist>>

\* send(&self): the handle is not consumed, so the Sender can send again.
Unlock_SenderReusable(p) ==
    /\ pc[p] = "unlock"
    /\ lock' = None
    /\ IF op[p] = "drop"
         THEN /\ pc' = [pc EXCEPT ![p] = "release"]
              /\ UNCHANGED <<op, returned>>
         ELSE /\ returned' = [returned EXCEPT ![p] = out[p].ret]
              /\ pc' = [pc EXCEPT ![p] = "idle"]
              /\ UNCHANGED op
    /\ UNCHANGED <<state, refs, discarded, arg, old, out, rxGone, nrecv,
                   scheduled, wakes, hist>>

\* replace_state that leaks its guard (mem::forget): the call returns with the
\* lock still held.
Unlock_KeepsLock(p) ==
    /\ pc[p] = "unlock"
    /\ IF op[p] = "drop"
         THEN /\ pc' = [pc EXCEPT ![p] = "release"]
              /\ UNCHANGED <<op, returned>>
         ELSE /\ returned' = [returned EXCEPT ![p] = out[p].ret]
              /\ IF op[p] = "send"
                   THEN /\ op' = [op EXCEPT ![p] = "drop"]
                        /\ pc' = [pc EXCEPT ![p] = "lock"]
                   ELSE /\ pc' = [pc EXCEPT ![p] = "idle"]
                        /\ UNCHANGED op
    /\ UNCHANGED <<state, lock, refs, discarded, arg, old, out, rxGone, nrecv,
                   scheduled, wakes, hist>>

\* ret: the guard goes out of scope and the call returns.  send consumes self,
\* so the Sender's InnerArc is dropped before send returns to its caller.
Unlock(p) ==
    /\ pc[p] = "unlock"
    /\ lock' = None
    /\ IF op[p] = "drop"
         THEN /\ pc' = [pc EXCEPT ![p] = "release"]
              /\ UNCHANGED <<op, returned>>
         ELSE /\ returned' = [returned EXCEPT ![p] = out[p].ret]
              /\ IF op[p] = "send"
                   THEN /\ op' = [op EXCEPT ![p] = "drop"]
                        /\ pc' = [pc EXCEPT ![p] = "lock"]
                   ELSE /\ pc' = [pc EXCEPT ![p] = "idle"]
                        /\ UNCHANGED op
    /\ UNCHANGED <<state, refs, discarded, arg, old, out, rxGone, nrecv,
                   scheduled, wakes, hist>>

\* After InnerArc::drop the Arc field is dropped: the last owner frees the cell
\* and whatever the state still holds.
Release(p) ==
    /\ pc[p] = "release"
    /\ refs' = refs - 1
    /\ discarded' = IF refs = 1 THEN state.item ELSE discarded
    /\ pc' = [pc EXCEPT ![p] = "done"]
    /\ UNCHANGED <<state, lock, op, arg, old, out, returned, rxGone, nrecv,
                   scheduled, wakes, hist>>

SenderStep ==
    \/ \E item \in Items : SendCall(item)
    \/ SenderDropCall
    \/ Lock("S")
    \/ Take("S")
    \/ Apply("S")
    \/ Store("S")
    \/ Unlock("S")
    \/ Release("S")

\* The steps of an operation the sender thread has called.
SenderRun ==
    \/ Lock("S")
    \/ Take("S")
    \/ Apply("S")
    \/ Store("S")
    \/ Unlock("S")
    \/ Release("S")

\* The steps of an operation the receiver thread has called.
ReceiverRun ==
    \/ Lock("R")
    \/ Take("R")
    \/ Apply("R")
    \/ Store("R")
    \/ Unlock("R")
    \/ Release("R")

\* The receiver calling the methods of its handle in any order.
ReceiverStep ==
    \/ TryRecvCall
    \/ \E w \in Wakers : PollRecvCall(w)
    \/ ReceiverDropCall
    \/ ReceiverRun

Next == SenderStep \/ ReceiverStep

Spec == Init /\ [][Next]_vars

\* The receiver as an awaited future (rx.await): polled by the executor each
\* time the task is queued, dropped when it has resolved.
TaskStep ==
    \/ \E w \in Wakers : TaskPoll(w)
    \/ TaskDrop
    \/ ReceiverRun

TaskNext == SenderStep \/ TaskStep

\* Both threads keep running: a thread that can take a step eventually does.
TaskSpec == Init /\ [][TaskNext]_vars /\ WF_vars(SenderStep) /\ WF_vars(TaskStep)

\* The API used freely, each thread scheduled fairly while it is inside an
\* operation: a started operation that can take a step eventually does.
FairSpec == Spec /\ WF_vars(SenderRun) /\ WF_vars(ReceiverRun)

TypeOK ==
    /\ state.tag \in {"ReceiverNotYetPolled", "ReceiverWaiting", "ItemSent", "Disconnected"}
    /\ refs \in 0..Cardinality(Procs)
    /\ nrecv \in 0..MaxRecv

(***************************************************************************)
(* Reading the history.                                                    *)
(***************************************************************************)
Idx == 1..Len(hist)
IsRecv(e) == e.op \in {"try_recv", "poll_recv"}
IsSendOk(e) == e.op = "send" /\ e.ret.kind = "Ok"
HasValue(e) == e.ret.kind \in {"OkSome", "ReadyOk"}
\* What a receive that finds item v returns.
Delivers(e, v) ==
    e.ret = Ret(IF e.op = "try_recv" THEN "OkSome" ELSE "ReadyOk", v)
\* What a receive that finds the channel disconnected returns.
Disconnects(e) ==
    e.ret = Ret(IF e.op = "try_recv" THEN "ErrDisconnected" ELSE "ReadyErrDisconnected", None)
RecvsAfter(i) == {j \in Idx : j > i /\ IsRecv(hist[j])}
RecvsBefore(i) == {j \in Idx : j < i /\ IsRecv(hist[j])}
PollsBefore(i) == {j \in Idx : j < i /\ hist[j].op = "poll_recv"}
First(S) == CHOOSE j \in S : \A k \in S : j <= k
Last(S) == CHOOSE j \in S : \A k \in S : k <= j
ReceiverDroppedBefore(i) == \E j \in Idx : j < i /\ hist[j].who = "R" /\ hist[j].op = "drop"
SentBefore(i) == \E j \in Idx : j < i /\ hist[j].op = "send"

(***************************************************************************)
(* The claims.                                                             *)
(***************************************************************************)

\* C1. Single delivery: after a send(v) that returned Ok, the first receive
\* attempt to take the lock returns v, every later receive attempt returns
\* Err(Disconnected), and no run has two receives that return a value.
SingleDelivery ==
    /\ \A i \in Idx : IsSendOk(hist[i]) =>
          \A j \in RecvsAfter(i) :
              IF j = First(RecvsAfter(i))
                THEN Delivers(hist[j], hist[i].arg)
                ELSE Disconnects(hist[j])
    /\ Cardinality({j \in Idx : HasValue(hist[j])}) <= 1

\* C1 witness: a send that returned Ok, a receive that got the value, and a
\* receive after that one.
SingleDeliveryWitness ==
    \E i, j, k \in Idx :
        /\ i < j /\ j < k
        /\ IsSendOk(hist[i])
        /\ HasValue(hist[j])
        /\ IsRecv(hist[k])

\* C2 as claimed: a send that follows the Receiver's drop returns Ok and
\* stores ItemSent(v).
ReceiverDroppedFirstSendOk ==
    \A i \in Idx : (hist[i].op = "send" /\ rxGone) =>
        /\ hist[i].ret = Ret("Ok", None)
        /\ hist[i].new = ItemSent(hist[i].arg[1])

\* C2 amended. Receiver-dropped-first: a send that follows the Receiver's drop
\* returns Err(v), handing the item back; the state stays Disconnected, the
\* item is never stored in the cell and nothing is discarded at its teardown.
ReceiverDroppedFirstSendErr ==
    \A i \in Idx : (hist[i].op = "send" /\ rxGone) =>
        /\ hist[i].old = Disconnected
        /\ hist[i].ret = Ret("Err", hist[i].arg)
        /\ \A j \in Idx : j >= i => hist[j].new = Disconnected
        /\ state.tag # "ItemSent"
        /\ discarded = None

\* C2 witness: both handles are gone, the Receiver's first, and the send in
\* between has returned.
ReceiverDroppedFirstWitness ==
    /\ \E i \in Idx : hist[i].op = "send" /\ rxGone
    /\ returned["S"].kind # "none"
    /\ refs = 0

\* C3. send returns Err(item), with the item it was given and the state left
\* Disconnected, exactly when the Receiver's drop took the lock before it; in
\* every other case it returns Ok(()) and the state becomes ItemSent(item).
SendErrIffReceiverDropped ==
    /\ \A i \in Idx : hist[i].op = "send" =>
          IF ReceiverDroppedBefore(i)
            THEN hist[i].ret = Ret("Err", hist[i].arg) /\ hist[i].new = Disconnected
            ELSE hist[i].ret = Ret("Ok", None) /\ hist[i].new = ItemSent(hist[i].arg[1])
    /\ (op["S"] = "send" /\ pc["S"] = "unlock") =>
          /\ state = hist[Last({i \in Idx : hist[i].op = "send"})].new
          /\ state = IF out["S"].ret.kind = "Err" THEN Disconnected
                     ELSE ItemSent(arg["S"][1])

\* C3 witness: send has stored its new state, in a run where a poll had
\* registered a waker before it.
SendErrIffWitness ==
    /\ op["S"] = "send" /\ pc["S"] = "unlock"
    /\ \E i \in Idx : hist[i].op = "send" /\ PollsBefore(i) # {}

\* C4. Sender-dropped-first: when the Sender is dropped without a send, the
\* waker registered by the receiver's last Pending poll is invoked by the drop,
\* and every poll_recv and try_recv after the drop returns Err(Disconnected).
SenderDroppedFirst ==
    \A i \in Idx : (hist[i].who = "S" /\ hist[i].op = "drop" /\ ~SentBefore(i)) =>
        /\ (PollsBefore(i) # {} /\ ~ReceiverDroppedBefore(i)) =>
              /\ hist[Last(PollsBefore(i))].ret = Ret("Pending", None)
              /\ hist[i].wake = hist[Last(PollsBefore(i))].arg
              /\ wakes[hist[i].wake[1]] = 1
        /\ \A j \in RecvsAfter(i) : Disconnects(hist[j])

\* C4 witness: a Pending poll, the Sender dropped without sending, then a poll
\* and a try_recv.
SenderDroppedFirstWitness ==
    \E i, j, k \in Idx :
        /\ hist[i].who = "S" /\ hist[i].op = "drop" /\ ~SentBefore(i)
        /\ hist[i].wake # None
        /\ j > i /\ hist[j].op = "poll_recv"
        /\ k > i /\ hist[k].op = "try_recv"

\* C5. Poll-before-send: every poll_recv before the send returns Pending and
\* registers its waker; a send that returns Ok after such a poll invokes the
\* waker registered last, which is the only wake of the whole run (the Sender's
\* drop at the end of send and the Receiver's drop add none); and a poll_recv
\* that is the next receive after the send returns Ready(Ok(v)).
PollBeforeSend ==
    \A i \in Idx : hist[i].op = "send" =>
        /\ \A j \in PollsBefore(i) :
              /\ hist[j].ret = Ret("Pending", None)
              /\ hist[j].new = ReceiverWaiting(hist[j].arg[1])
        /\ (IsSendOk(hist[i]) /\ PollsBefore(i) # {}) =>
              /\ hist[i].wake = hist[Last(PollsBefore(i))].arg
              /\ \A k \in Idx : hist[k].wake # None => k = i
              /\ \A w \in Wakers : wakes[w] = IF hist[i].wake = Some(w) THEN 1 ELSE 0
              /\ (RecvsAfter(i) # {} /\ hist[First(RecvsAfter(i))].op = "poll_recv") =>
                    hist[First(RecvsAfter(i))].ret = Ret("ReadyOk", hist[i].arg)

\* C5 witness: poll, send, poll, and both handles dropped.
PollBeforeSendWitness ==
    /\ \E i \in Idx :
          /\ IsSendOk(hist[i])
          /\ PollsBefore(i) # {}
          /\ RecvsAfter(i) # {} /\ hist[First(RecvsAfter(i))].op = "poll_recv"
    /\ refs = 0

\* C6 as claimed: no waker is invoked while the state lock is held.
WakeOutsideLock ==
    \A i \in Idx : hist[i].wake # None => ~hist[i].locked

\* The sender-side events of the history.
SenderEvents == {i \in Idx : hist[i].who = "S"}

\* C7, the interleavings: a poll that takes the lock after the send is the one
\* that returns Ready(Ok(v)); a poll that takes the lock before the Sender has
\* acted returns Pending, and the Sender's first transition (send, or drop
\* without a send) invokes the waker of the last such poll.
PollLinearized ==
    \A j \in Idx : hist[j].op = "poll_recv" =>
        IF \E i \in SenderEvents : i < j
          THEN /\ IsReady(hist[j].ret)
               /\ \A i \in Idx : (IsSendOk(hist[i]) /\ i < j) =>
                     hist[j].ret = Ret("ReadyOk", hist[i].arg)
          ELSE /\ hist[j].ret = Ret("Pending", None)
               /\ (SenderEvents # {} /\ j = Last(PollsBefore(First(SenderEvents)))) =>
                     hist[First(SenderEvents)].wake = hist[j].arg

\* C7, the outcome: the future has resolved, to the value if one was sent.
Resolved ==
    /\ IsReady(returned["R"])
    /\ \A i \in Idx : IsSendOk(hist[i]) => returned["R"] = Ret("ReadyOk", hist[i].arg)
    /\ (\A i \in Idx : hist[i].op # "send") => returned["R"] = Ret("ReadyErrDisconnected", None)

\* C7. No lost wakeup: a receiver that is re-polled whenever its waker is
\* invoked, with a Sender that eventually sends or is dropped, either finds the
\* value or has the waker it registered invoked, and its future eventually
\* returns Ready (weak fairness of both threads).
NoLostWakeup == [] PollLinearized /\ <> Resolved

\* C7 witness: the task polled first and was Pending, the send woke it, and
\* the second poll returned the value.
NoLostWakeupWitness ==
    /\ returned["R"].kind = "ReadyOk"
    /\ \E i, j \in Idx : j < i /\ hist[j].op = "poll_recv" /\ IsSendOk(hist[i])
                          /\ hist[i].wake = hist[j].arg

\* C8. No double-wake: when polls with wakers w1 and then w2 (the last poll)
\* precede a send that returns Ok, the send invokes w2, w2 is invoked once in
\* the whole run, and w1 is dropped by the second poll and never invoked.
NoDoubleWake ==
    \A i \in Idx : IsSendOk(hist[i]) =>
        \A j1, j2 \in PollsBefore(i) :
            (j1 < j2 /\ j2 = Last(PollsBefore(i)) /\ hist[j1].arg # hist[j2].arg) =>
                /\ hist[i].wake = hist[j2].arg
                /\ wakes[hist[j2].arg[1]] = 1
                /\ wakes[hist[j1].arg[1]] = 0
                /\ \A k \in Idx : k >= j2 =>
                      hist[k].new.waker # hist[j1].arg /\ hist[k].wake # hist[j1].arg
                /\ state.waker # hist[j1].arg

\* C8 witness: two polls with different wakers, then the send, and both
\* handles dropped.
NoDoubleWakeWitness ==
    /\ \E i \in Idx : IsSendOk(hist[i]) /\
          \E j1, j2 \in PollsBefore(i) : j1 < j2 /\ hist[j1].arg # hist[j2].arg
    /\ refs = 0

\* C9. Send-before-poll: when send(v) is applied before any receive attempt
\* (and before a drop of the Receiver), the first receive attempt returns v;
\* and a receive only ever returns the item that was sent.
SendBeforePoll ==
    /\ \A i \in Idx :
          (hist[i].op = "send" /\ RecvsBefore(i) = {} /\ ~ReceiverDroppedBefore(i)) =>
              /\ IsSendOk(hist[i])
              /\ RecvsAfter(i) # {} => Delivers(hist[First(RecvsAfter(i))], hist[i].arg)
    /\ \A j \in Idx : HasValue(hist[j]) =>
          \E i \in Idx : i < j /\ IsSendOk(hist[i]) /\ hist[j].ret.val = hist[i].arg

\* C9 witness: send has returned to its caller, its handle dropped, before the
\* first receive, which returns a value.
SendBeforePollWitness ==
    \E i, d, j \in Idx :
        /\ i < d /\ d < j
        /\ hist[i].op = "send" /\ RecvsBefore(i) = {}
        /\ hist[d].who = "S" /\ hist[d].op = "drop"
        /\ j = First(RecvsAfter(i))
        /\ HasValue(hist[j])

\* C10. Idempotent disconnection: an operation that finds the state
\* Disconnected leaves it Disconnected, a receive that finds it returns
\* Err(Disconnected), and once a transition has left the state Disconnected
\* every later operation finds it Disconnected.
DisconnectedAbsorbing ==
    /\ \A i \in Idx : hist[i].old = Disconnected =>
          /\ hist[i].new = Disconnected
          /\ IsRecv(hist[i]) => Disconnects(hist[i])
          /\ hist[i].wake = None
    /\ \A i, j \in Idx : (i < j /\ hist[i].new = Disconnected) => hist[j].old = Disconnected
    /\ (hist # <<>> /\ hist[Len(hist)].new = Disconnected /\ lock = None) =>
          state = Disconnected

\* C10 witness: a try_recv, a poll_recv and a drop that all found the state
\* Disconnected.
DisconnectedAbsorbingWitness ==
    \E i, j, k \in Idx :
        /\ hist[i].old = Disconnected /\ hist[i].op = "try_recv"
        /\ hist[j].old = Disconnected /\ hist[j].op = "poll_recv"
        /\ hist[k].old = Disconnected /\ hist[k].op = "drop"

\* Thread p is inside an operation it has started.
Running(p) == pc[p] \notin {"idle", "done"}

\* C11, no deadlock: whenever a thread is inside an operation, some thread
\* inside an operation can take a step.
NoDeadlock ==
    (\E p \in Procs : Running(p)) => ENABLED (SenderRun \/ ReceiverRun)

ErrOnlyWhenNothingPending ==
    /\ \A j \in Idx : (IsRecv(hist[j]) /\ Disconnects(hist[j])) =>
          \/ \E k \in Idx : k < j /\ HasValue(hist[k])
          \/ /\ \E d \in Idx : d < j /\ hist[d].who = "S" /\ hist[d].op = "drop"
             /\ ~ \E i \in Idx : i < j /\ IsSendOk(hist[i])
    /\ \A j \in Idx : IsRecv(hist[j]) =>
          (Disconnects(hist[j]) <=> hist[j].old.tag = "Disconnected")
    /\ \A d \in Idx : (hist[d].who = "S" /\ hist[d].op = "drop" /\ hist[d].old.tag = "ItemSent") =>
          hist[d].new = hist[d].old

\* C12 witness: a send, the Sender's drop finding the item pending, a receive
\* that returns the item and a later one that returns Err(Disconnected).
ErrOnlyWhenNothingPendingWitness ==
    \E d, j, k \in Idx :
        /\ d < j /\ j < k
        /\ hist[d].who = "S" /\ hist[d].op = "drop" /\ hist[d].old.tag = "ItemSent"
        /\ HasValue(hist[j])
        /\ Disconnects(hist[k])

\* C13. A try_recv that finds ReceiverNotYetPolled or ReceiverWaiting(w)
\* returns Ok(None), invokes no waker, and stores back the state it found, the
\* registered waker included.
TryRecvNothingUnchanged ==
    /\ \A i \in Idx :
          (hist[i].op = "try_recv"
             /\ hist[i].old.tag \in {"ReceiverNotYetPolled", "ReceiverWaiting"}) =>
              /\ hist[i].ret = Ret("OkNone", None)
              /\ hist[i].new = hist[i].old
              /\ hist[i].wake = None
    /\ (op["R"] = "try_recv" /\ pc["R"] = "unlock"
          /\ old["R"].tag \in {"ReceiverNotYetPolled", "ReceiverWaiting"}) =>
              /\ state = old["R"]
              /\ \A w \in Wakers : wakes[w] = 0

\* C13 witness: a try_recv has stored the state back over a registered waker.
TryRecvNothingUnchangedWitness ==
    /\ op["R"] = "try_recv" /\ pc["R"] = "unlock"
    /\ old["R"].tag = "ReceiverWaiting"

\* C14. A poll_recv that finds neither an item nor Disconnected returns Pending
\* and stores ReceiverWaiting(its waker) whatever waker was registered before;
\* a second poll with the same waker right after it returns the same result
\* and stores the same state.
PollRegistersCurrentWaker ==
    /\ \A i \in Idx :
          (hist[i].op = "poll_recv"
             /\ hist[i].old.tag \in {"ReceiverNotYetPolled", "ReceiverWaiting"}) =>
              /\ hist[i].ret = Ret("Pending", None)
              /\ hist[i].new = ReceiverWaiting(hist[i].arg[1])
              /\ hist[i].wake = None
    /\ \A i \in Idx :
          (i + 1 \in Idx /\ hist[i].op = "poll_recv" /\ hist[i + 1].op = "poll_recv"
             /\ hist[i].ret.kind = "Pending" /\ hist[i + 1].arg = hist[i].arg) =>
              /\ hist[i + 1].ret = hist[i].ret
              /\ hist[i + 1].new = hist[i].new
              /\ hist[i + 1].old = hist[i].new
    /\ (op["R"] = "poll_recv" /\ pc["R"] = "unlock" /\ out["R"].ret.kind = "Pending") =>
          state = ReceiverWaiting(arg["R"][1])

\* C14 witness: a poll that overwrote another waker, then a poll with the same
\* waker again, stored.
PollRegistersCurrentWakerWitness ==
    /\ op["R"] = "poll_recv" /\ pc["R"] = "unlock"
    /\ \E i \in Idx :
          /\ i + 1 = Len(hist)
          /\ hist[i].op = "poll_recv" /\ hist[i + 1].op = "poll_recv"
          /\ hist[i].old.tag = "ReceiverWaiting" /\ hist[i].old.waker # hist[i].arg
          /\ hist[i + 1].arg = hist[i].arg

\* Thread p is between lock() and the end of replace_state.
InCritical(p) == pc[p] \in {"take", "apply", "store", "unlock"}

\* C15. Once a send has invoked the waker, no operation finds ReceiverWaiting
\* (or the default) again and every poll_recv that takes the lock afterwards
\* returns Ready; while the send has called wake() and not yet stored ItemSent,
\* the cell holds the default but the sender holds the lock and the receiver is
\* outside replace_state's critical section.
NoStaleWaiting ==
    /\ \A i \in Idx : (hist[i].op = "send" /\ hist[i].wake # None) =>
          \A j \in Idx : j > i =>
              /\ hist[j].old.tag \in {"ItemSent", "Disconnected"}
              /\ hist[j].op = "poll_recv" => IsReady(hist[j].ret)
              /\ hist[j].new.tag # "ReceiverWaiting"
    /\ (op["S"] = "send" /\ pc["S"] = "store" /\ out["S"].wake # None) =>
          /\ state = StateDefault
          /\ lock = Some("S")
          /\ ~InCritical("R")

\* C15 witness: a send that woke the receiver, and a poll after it.
NoStaleWaitingWitness ==
    \E i, j \in Idx :
        /\ i < j
        /\ hist[i].op = "send" /\ hist[i].wake # None
        /\ hist[j].op = "poll_recv"

\* The drop transition of InnerArc, as a relation on a history event.
DropTransition(e) ==
    CASE e.old.tag = "ReceiverWaiting" -> e.new = Disconnected /\ e.wake = e.old.waker
      [] e.old.tag = "ItemSent" -> e.new = e.old /\ e.wake = None
      [] OTHER -> e.new = Disconnected /\ e.wake = None

\* C16. The drop transition is applied when either handle is released, with the
\* same effect: every handle that has been released ran it, and a Receiver
\* dropped while its last poll is Pending invokes the waker that poll registered.
DropSameForBothHandles ==
    /\ \A p \in Procs : pc[p] \in {"release", "done"} =>
          \E i \in Idx : hist[i].who = p /\ hist[i].op = "drop"
    /\ \A i \in Idx : hist[i].op = "drop" => DropTransition(hist[i])
    /\ \A i \in Idx :
          (hist[i].who = "R" /\ hist[i].op = "drop" /\ PollsBefore(i) # {}
             /\ \A k \in Idx : k < i => hist[k].who = "R") =>
              /\ hist[i].wake = hist[Last(PollsBefore(i))].arg
              /\ wakes[hist[i].wake[1]] = 1

\* C16 witness: both handles released, the Receiver's while it was Pending.
DropSameForBothHandlesWitness ==
    /\ refs = 0
    /\ \E i \in Idx : hist[i].who = "R" /\ hist[i].op = "drop" /\ hist[i].wake # None

\* C17. The Sender's drop at the end of a send that returned Ok invokes no
\* waker and stores back the state it finds, which is ItemSent(v), or
\* Disconnected when a receive has collected v in between.
ImplicitDropKeepsItem ==
    /\ \A i, d \in Idx :
          (i < d /\ IsSendOk(hist[i]) /\ hist[d].who = "S" /\ hist[d].op = "drop") =>
              /\ hist[d].wake = None
              /\ hist[d].new = hist[d].old
              /\ hist[d].old =
                    IF \E j \in Idx : i < j /\ j < d /\ HasValue(hist[j])
                      THEN Disconnected
                      ELSE ItemSent(hist[i].arg[1])
    /\ (op["S"] = "drop" /\ pc["S"] = "unlock" /\ returned["S"].kind = "Ok") =>
          /\ state = old["S"]
          /\ state.tag \in {"ItemSent", "Disconnected"}

\* C17 witness: the drop at the end of send has stored the state back, in a run
\* where the receiver collected the item between the send and that drop.
ImplicitDropKeepsItemWitness ==
    /\ op["S"] = "drop" /\ pc["S"] = "unlock" /\ returned["S"].kind = "Ok"
    /\ \E j \in Idx : j < Len(hist) /\ HasValue(hist[j])

\* C18. send never finds ItemSent: while the Sender has made no transition the
\* cell never holds ItemSent, the one send of a run finds ReceiverNotYetPolled,
\* ReceiverWaiting or Disconnected, and a run has at most one send.
SendNeverFindsItemSent ==
    /\ SenderEvents = {} => state.tag # "ItemSent"
    /\ \A i \in Idx : hist[i].op = "send" =>
          hist[i].old.tag \in {"ReceiverNotYetPolled", "ReceiverWaiting", "Disconnected"}
    /\ Cardinality({i \in Idx : hist[i].op = "send"}) <= 1
    /\ (op["S"] = "send" /\ pc["S"] = "apply") => old["S"].tag # "ItemSent"

\* C18 witness: send has taken the state and found a waiting receiver.
SendNeverFindsItemSentWitness ==
    /\ op["S"] = "send" /\ pc["S"] = "apply"
    /\ old["S"].tag = "ReceiverWaiting"

\* The state the last applied transition left, the initial one if there is none.
LastStored == IF hist = <<>> THEN StateDefault ELSE hist[Len(hist)].new

\* C19. replace_state is atomic: only the lock holder is between lock() and
\* the return, each operation finds the state the one before it stored (never
\* the default mem::take leaves in the cell in between), and whenever the lock
\* is free the cell holds the state last stored.
ReplaceStateAtomic ==
    /\ \A p \in Procs : InCritical(p) => lock = Some(p)
    /\ \A p, q \in Procs : (InCritical(p) /\ InCritical(q)) => p = q
    /\ \A i \in Idx :
          hist[i].old = IF i = 1 THEN StateDefault ELSE hist[i - 1].new
    /\ \A p \in Procs : pc[p] = "apply" => old[p] = LastStored
    /\ lock = None => state = LastStored

\* C19 witness: the sender has taken ReceiverWaiting out of the cell, which
\* holds the default, while the receiver is waiting for the lock.
ReplaceStateAtomicWitness ==
    /\ pc["S"] = "apply"
    /\ old["S"].tag = "ReceiverWaiting"
    /\ state = StateDefault
    /\ pc["R"] = "lock"
====
